---------------------------- MODULE Spec2Model ----------------------------
(***************************************************************************)
(* Automated Performance Insight Platform: schema inference                *)
(* (app/ingestion/schema_detector.py), the statistics engine               *)
(* (app/analytics/engine.py) and the two request handlers (app/main.py).   *)
(*                                                                         *)
(* A table cell is a record [k, a, b, c]: k is the kind of value and a, b, *)
(* c its parts.  k = "nan" is a missing value, k = "num" a number a,       *)
(* k = "ts" a timestamp of year a, month b, day c, k = "str" a plain text. *)
(* The other kinds are texts that look like dates, named by their shape:   *)
(*   "n-n-n"  a-b-c         "n/n/n"  a/b/c        "n-n"   a-b              *)
(*   "n"      a             "Month n" full month name a, year b            *)
(*   "Mon n"  abbreviated month name a, year b                             *)
(*   "n-n-n n:n"  a-b-c followed by a time of day                          *)
(* A column is [name, dtype, cells]; a column name is the sequence of its  *)
(* characters.  A table is the sequence of its columns, all of one length. *)
(***************************************************************************)
EXTENDS Integers, Sequences, FiniteSets, TLC

VARIABLES
    handler,    \* the request handler running: "upload_file", "download_report"
    pc,         \* its position
    file,       \* the upload: [ext, table]
    df,         \* the handler's table, as load_file returned it
    schema,     \* detect_schema's result
    validation, \* validate_schema's result
    dfArg,      \* the table object handed to run_analytics (df.copy())
    analytics,  \* run_analytics's result: << >> before it returns, then <<result>>
    frames,     \* run_analytics's evaluations: the rows of each and its views
    charts,     \* generate_charts's result
    response,   \* what the request ended in
    col,        \* detect_schema's loop: the column under classification
    colClass,   \* detect_schema's loop: how the last column was classified
    seen        \* detect_schema's loop: the names of the columns done

vars == <<handler, pc, file, df, schema, validation, dfArg, analytics, frames,
          charts, response, col, colClass, seen>>

---------------------------------------------------------------------------
(* Cells *)

Cell(k, a, b, c) == [k |-> k, a |-> a, b |-> b, c |-> c]
NaN == Cell("nan", 0, 0, 0)
Num(v) == Cell("num", v, 0, 0)
Ts(y, m, d) == Cell("ts", y, m, d)
Str(id) == Cell("str", id, 0, 0)
NaT == NaN

IsNa(x) == x.k = "nan"

---------------------------------------------------------------------------
(* Calendar checks made by the date parsers *)

IsLeap(y) == (y % 4 = 0 /\ y % 100 # 0) \/ y % 400 = 0

DaysInMonth(y, m) ==
    IF m \in {4, 6, 9, 11} THEN 30
    ELSE IF m = 2 THEN (IF IsLeap(y) THEN 29 ELSE 28)
    ELSE 31

IsYear4(y) == y \in 1000..9999
IsYear2(y) == y \in 0..99
IsMonth(m) == m \in 1..12
IsDate(y, m, d) == IsMonth(m) /\ d >= 1 /\ d <= DaysInMonth(y, m)

\* strptime's two-digit year: 69..99 are 19xx, 0..68 are 20xx
Year2(y) == IF y >= 69 THEN 1900 + y ELSE 2000 + y

---------------------------------------------------------------------------
(* detect_schema *)

name_hints ==
    << <<"d","a","t","e">>, <<"t","i","m","e">>, <<"m","o","n","t","h">>,
       <<"y","e","a","r">>, <<"w","e","e","k">>,
       <<"p","e","r","i","o","d">>, <<"q","u","a","r","t","e","r">> >>

\* hint in col_lower
Contains(s, h) ==
    \E i \in 1..(Len(s) - Len(h) + 1) : SubSeq(s, i, i + Len(h) - 1) = h

is_name_hint(name) == \E j \in DOMAIN name_hints : Contains(name, name_hints[j])

date_formats ==
    <<"%Y-%m-%d", "%m/%d/%Y", "%m/%d/%y", "%d-%m-%Y", "%B %Y", "%b %Y",
      "%Y-%m", "%Y">>

\* pd.to_datetime(value, format=fmt, errors="coerce"): the timestamp, or NaT
ParseFormat(fmt, x) ==
    CASE fmt = "%Y-%m-%d" /\ x.k = "n-n-n" /\ IsYear4(x.a) /\ IsDate(x.a, x.b, x.c)
            -> Ts(x.a, x.b, x.c)
      [] fmt = "%m/%d/%Y" /\ x.k = "n/n/n" /\ IsYear4(x.c) /\ IsDate(x.c, x.a, x.b)
            -> Ts(x.c, x.a, x.b)
      [] fmt = "%m/%d/%y" /\ x.k = "n/n/n" /\ IsYear2(x.c)
                          /\ IsDate(Year2(x.c), x.a, x.b)
            -> Ts(Year2(x.c), x.a, x.b)
      [] fmt = "%d-%m-%Y" /\ x.k = "n-n-n" /\ IsYear4(x.c) /\ IsDate(x.c, x.b, x.a)
            -> Ts(x.c, x.b, x.a)
      [] fmt = "%B %Y" /\ x.k = "Month n" /\ IsMonth(x.a) /\ IsYear4(x.b)
            -> Ts(x.b, x.a, 1)
      [] fmt = "%b %Y" /\ x.k = "Mon n" /\ IsMonth(x.a) /\ IsYear4(x.b)
            -> Ts(x.b, x.a, 1)
      [] fmt = "%Y-%m" /\ x.k = "n-n" /\ IsYear4(x.a) /\ IsMonth(x.b)
            -> Ts(x.a, x.b, 1)
      [] fmt = "%Y" /\ x.k = "n" /\ IsYear4(x.a)
            -> Ts(x.a, 1, 1)
      [] OTHER -> NaT

\* pd.to_datetime(value, errors="coerce") without a format, one value at a
\* time (the free-form parser): year first when the first part has four
\* digits, else month first unless only day first is a date (dayfirst
\* reverses that preference).  A timestamp stays what it is.
ParseGeneric(x, dayfirst) ==
    LET mdy == IsYear4(x.c) /\ IsDate(x.c, x.a, x.b)
        dmy == IsYear4(x.c) /\ IsDate(x.c, x.b, x.a)
    IN  CASE x.k = "ts" -> x
          [] x.k \in {"n-n-n", "n-n-n n:n"} /\ IsYear4(x.a) /\ IsDate(x.a, x.b, x.c)
                -> Ts(x.a, x.b, x.c)
          [] x.k \in {"n-n-n", "n/n/n"} /\ ~IsYear4(x.a) /\ (mdy \/ dmy)
                -> IF (dayfirst /\ dmy) \/ ~mdy
                   THEN Ts(x.c, x.b, x.a) ELSE Ts(x.c, x.a, x.b)
          [] x.k \in {"Month n", "Mon n"} /\ IsMonth(x.a) /\ IsYear4(x.b)
                -> Ts(x.b, x.a, 1)
          [] x.k = "n-n" /\ IsYear4(x.a) /\ IsMonth(x.b) -> Ts(x.a, x.b, 1)
          [] x.k = "n" /\ IsYear4(x.a) -> Ts(x.a, 1, 1)
          [] OTHER -> NaT

\* parsed.notna().sum()
NotNaCount(cells) == Cardinality({i \in DOMAIN cells : ~IsNa(cells[i])})

to_datetime_format(cells, fmt) == [i \in DOMAIN cells |-> ParseFormat(fmt, cells[i])]
to_datetime(cells, dayfirst) == [i \in DOMAIN cells |-> ParseGeneric(cells[i], dayfirst)]

\* The thresholds 0.5, 0.7 and 0.5 of len(df), in percent
FormatThresholdPct == 50
GenericThresholdPct == 70
HintThresholdPct == 50

\* count > len(df) * pct / 100
MoreThanPctOrEqual(count, len, pct) ==
    100 * count >= pct * len

MoreThanPct(count, len, pct) ==
    100 * count > pct * len

is_datetime64_any_dtype(dtype) == dtype = "datetime64"
is_numeric_dtype(dtype) == dtype \in {"int64", "float64", "bool"}
is_text_dtype(dtype) == dtype \in {"object", "str"}

\* for fmt in date_formats: ... break.  The index of the first format that
\* parses more than half of the values, from format i on; 0 when none does.
RECURSIVE TryFormats(_, _)
TryFormats(cells, i) ==
    IF i > Len(date_formats) THEN 0
    ELSE IF MoreThanPct(NotNaCount(to_datetime_format(cells, date_formats[i])),
                        Len(cells), FormatThresholdPct)
         THEN i
         ELSE TryFormats(cells, i + 1)

Classified(cls, via, fmt) == [cls |-> cls, via |-> via, fmt |-> fmt]

\* One iteration of detect_schema's loop: the list the column is appended to
\* (cls), the statement that appended it (via), and the index of the explicit
\* format that succeeded (fmt, 0 when none).
ClassifyColumn(c) ==
    LET f == TryFormats(c.cells, 1)
        n == Len(c.cells)
    IN  IF is_datetime64_any_dtype(c.dtype)
        THEN Classified("time", "dtype", 0)
        ELSE IF is_text_dtype(c.dtype) /\ f # 0
        THEN Classified("time", "format", f)
        ELSE IF is_text_dtype(c.dtype)
                /\ MoreThanPct(NotNaCount(to_datetime(c.cells, FALSE)), n,
                               GenericThresholdPct)
        THEN Classified("time", "generic", 0)
        ELSE IF is_text_dtype(c.dtype) /\ is_name_hint(c.name)
                /\ MoreThanPct(NotNaCount(to_datetime(c.cells, TRUE)), n,
                               HintThresholdPct)
        THEN Classified("time", "dayfirst", 0)
        ELSE IF is_numeric_dtype(c.dtype)
        THEN Classified("metric", "numeric", 0)
        ELSE Classified("category", "default", 0)

EmptySchema ==
    [time_columns |-> << >>, metric_columns |-> << >>, category_columns |-> << >>]

\* time_columns.append(col) / metric_columns.append(col) / category_columns.append(col)
AppendColumn(s, name, cls) ==
    CASE cls = "time"   -> [s EXCEPT !.time_columns = Append(@, name)]
      [] cls = "metric" -> [s EXCEPT !.metric_columns = Append(@, name)]
      [] OTHER          -> [s EXCEPT !.category_columns = Append(@, name)]

\* detect_schema(df): the loop over df.columns, from column i on
RECURSIVE DetectFrom(_, _, _)
DetectFrom(t, i, s) ==
    IF i > Len(t) THEN s
    ELSE DetectFrom(t, i + 1, AppendColumn(s, t[i].name, ClassifyColumn(t[i]).cls))

detect_schema(t) == DetectFrom(t, 1, EmptySchema)

---------------------------------------------------------------------------
(* validate_schema *)

NoTimeError == "No date/time column detected. At least one time column is required."
NoMetricError == "No numeric metric columns detected. At least one metric is required."

\* (the second check as an elif of the first)
validate_schema_elif(s) ==
    LET errors == IF s.time_columns = << >> THEN <<NoTimeError>>
                  ELSE IF s.metric_columns = << >> THEN <<NoMetricError>>
                  ELSE << >>
    IN  [valid |-> Len(errors) = 0, errors |-> errors]

validate_schema(s) ==
    LET e1 == IF s.time_columns = << >> THEN <<NoTimeError>> ELSE << >>
        e2 == IF s.metric_columns = << >> THEN <<NoMetricError>> ELSE << >>
        errors == e1 \o e2
    IN  [valid |-> Len(errors) = 0, errors |-> errors]

---------------------------------------------------------------------------
(* Tables *)

NRows(t) == IF Len(t) = 0 THEN 0 ELSE Len(t[1].cells)

ColIndex(t, name) == CHOOSE j \in DOMAIN t : t[j].name = name
Column(t, name) == t[ColIndex(t, name)].cells

\* The rows idx[1], idx[2], ... of t, in that order, renumbered from 1
\* (t.iloc[idx].reset_index(drop=True))
TakeRows(t, idx) ==
    [j \in DOMAIN t |->
        [t[j] EXCEPT !.cells = [i \in DOMAIN idx |-> t[j].cells[idx[i]]]]]

RECURSIVE SeqOfSet(_)
\* The elements of a set of numbers in ascending order
SeqOfSet(S) ==
    IF S = {} THEN << >>
    ELSE LET m == CHOOSE x \in S : \A y \in S : x <= y
         IN  <<m>> \o SeqOfSet(S \ {m})

\* The row numbers at which keep holds, ascending (a boolean mask)
Mask(cells, keep(_)) == SeqOfSet({i \in DOMAIN cells : keep(cells[i])})

\* series.dropna()
NotNa(x) == ~IsNa(x)
dropna(cells) == SelectSeq(cells, NotNa)

TsKey(x) == x.a * 10000 + x.b * 100 + x.c

RECURSIVE AscendingOrders(_, _)
\* Every order of the rows R that is ascending in their timestamps: rows of
\* equal timestamps come in any order (the sort is not a stable one)
AscendingOrders(cells, R) ==
    IF R = {} THEN {<< >>}
    ELSE UNION {{<<m>> \o rest : rest \in AscendingOrders(cells, R \ {m})} :
                m \in {x \in R : \A y \in R : TsKey(cells[x]) <= TsKey(cells[y])}}

\* df.sort_values(time_col): the orders it may produce, rows without a
\* timestamp last, in the order they had
sort_values(cells) ==
    {p \o Mask(cells, IsNa) :
        p \in AscendingOrders(cells, {i \in DOMAIN cells : ~IsNa(cells[i])})}

---------------------------------------------------------------------------
(* Arithmetic on metric values.  A metric value is an integer; every       *)
(* reported number is an integer count of the unit it is rounded to:       *)
(* hundredths for round(x, 2), ten-thousandths for round(x, 4).            *)

RECURSIVE SumSeq(_)
SumSeq(s) == IF s = << >> THEN 0 ELSE Head(s) + SumSeq(Tail(s))

\* series.values of a series without missing values
Values(cells) == [i \in DOMAIN cells |-> cells[i].a]

Min(s) == CHOOSE x \in {s[i] : i \in DOMAIN s} : \A i \in DOMAIN s : x <= s[i]
Max(s) == CHOOSE x \in {s[i] : i \in DOMAIN s} : \A i \in DOMAIN s : x >= s[i]

Abs(x) == IF x < 0 THEN -x ELSE x

\* round(p / q) for q > 0, a tie going to the even neighbour
RoundPos(p, q) ==
    LET f == p \div q
        r == p % q
    IN  IF 2 * r < q THEN f
        ELSE IF 2 * r > q THEN f + 1
        ELSE IF f % 2 = 0 THEN f ELSE f + 1

\* round(p / q) for q # 0
Round(p, q) == IF q > 0 THEN RoundPos(p, q) ELSE RoundPos(-p, -q)

---------------------------------------------------------------------------
(* compute_summary *)

EmptySummary ==
    [total |-> 0, average |-> 0, min |-> 0, max |-> 0, latest |-> 0, count |-> 0]

\* (latest read at the first value, series.iloc[0])
SummaryOfFirst(cells) ==
    LET series == dropna(cells)
        v == Values(series)
        n == Len(series)
    IN  IF n = 0 THEN EmptySummary
        ELSE [total   |-> 100 * SumSeq(v),
              average |-> Round(100 * SumSeq(v), n),
              min     |-> 100 * Min(v),
              max     |-> 100 * Max(v),
              latest  |-> 100 * v[1],
              count   |-> n]

SummaryOf(cells) ==
    LET series == dropna(cells)
        v == Values(series)
        n == Len(series)
    IN  IF n = 0 THEN EmptySummary
        ELSE [total   |-> 100 * SumSeq(v),
              average |-> Round(100 * SumSeq(v), n),
              min     |-> 100 * Min(v),
              max     |-> 100 * Max(v),
              latest  |-> 100 * v[n],
              count   |-> n]

compute_summary(t, metric_cols) ==
    [c \in {metric_cols[i] : i \in DOMAIN metric_cols} |-> SummaryOf(Column(t, c))]

---------------------------------------------------------------------------
(* compute_trends *)

MinTrendPoints == 2
\* threshold = avg * 0.02, in percent of avg
TrendThresholdPct == 2

\* np.polyfit(arange(n), y, 1)[0] = SlopeNum / SlopeDen, SlopeDen > 0 for n >= 2
SlopeNum(v) ==
    LET n == Len(v)
    IN  n * SumSeq([i \in DOMAIN v |-> (i - 1) * v[i]])
          - SumSeq([i \in DOMAIN v |-> i - 1]) * SumSeq(v)

SlopeDen(v) ==
    LET n == Len(v)
    IN  n * SumSeq([i \in DOMAIN v |-> (i - 1) * (i - 1)])
          - SumSeq([i \in DOMAIN v |-> i - 1]) * SumSeq([i \in DOMAIN v |-> i - 1])

\* slope > threshold, with slope = num / den, threshold = pct/100 * sum / n
SlopeAbove(v) ==
    100 * Len(v) * SlopeNum(v) > TrendThresholdPct * SumSeq(v) * SlopeDen(v)

\* slope < -threshold
SlopeBelow(v) ==
    100 * Len(v) * SlopeNum(v) < -(TrendThresholdPct * SumSeq(v) * SlopeDen(v))

\* (slope >= threshold)
TrendDirectionNoBoundary(v) ==
    IF 100 * Len(v) * SlopeNum(v) >= TrendThresholdPct * SumSeq(v) * SlopeDen(v)
    THEN "improving"
    ELSE IF SlopeBelow(v) THEN "declining"
    ELSE "stable"

TrendDirection(v) ==
    IF SlopeAbove(v) THEN "improving"
    ELSE IF SlopeBelow(v) THEN "declining"
    ELSE "stable"

TrendOf(cells) ==
    LET series == dropna(cells)
        v == Values(series)
    IN  IF Len(series) < MinTrendPoints
        THEN [direction |-> "insufficient data", slope |-> 0]
        ELSE [direction |-> TrendDirection(v),
              slope     |-> Round(10000 * SlopeNum(v), SlopeDen(v))]

\* (a metric without enough points left out)
compute_trends_skipping(t, time_col, metric_cols) ==
    [c \in {metric_cols[i] : i \in {j \in DOMAIN metric_cols :
                Len(dropna(Column(t, metric_cols[j]))) >= MinTrendPoints}}
        |-> TrendOf(Column(t, c))]

compute_trends(t, time_col, metric_cols) ==
    [c \in {metric_cols[i] : i \in DOMAIN metric_cols} |-> TrendOf(Column(t, c))]

---------------------------------------------------------------------------
(* compute_period_comparison *)

MinPeriodPoints == 2
\* pct_change > 5, pct_change < -5
PeriodThresholdPct == 5

\* df[[time_col, col]].dropna()[col]
BothPresent(times, cells) ==
    LET idx == SeqOfSet({i \in DOMAIN cells : ~IsNa(cells[i]) /\ ~IsNa(times[i])})
    IN  [i \in 1..Len(idx) |-> cells[idx[i]]]

\* round((change / previous) * 100, 2), in hundredths of a percent; change is
\* in hundredths
PctChange(change, previous) ==
    IF previous # 0 THEN Round(100 * change, previous) ELSE 0

\* (pct_change >= 5, pct_change <= -5)
PeriodDirectionOrEqual(pct) ==
    IF pct >= 100 * PeriodThresholdPct THEN "up"
    ELSE IF pct <= -(100 * PeriodThresholdPct) THEN "down"
    ELSE "no significant change"

PeriodDirection(pct) ==
    IF pct > 100 * PeriodThresholdPct THEN "up"
    ELSE IF pct < -(100 * PeriodThresholdPct) THEN "down"
    ELSE "no significant change"

PeriodOf(times, cells) ==
    LET v == Values(BothPresent(times, cells))
        n == Len(v)
        change == 100 * (v[n] - v[n - 1])
        pct == PctChange(change, v[n - 1])
    IN  IF n < MinPeriodPoints
        THEN [latest_value |-> 0, previous_value |-> 0, change |-> 0,
              pct_change |-> 0, direction |-> "insufficient data"]
        ELSE [latest_value |-> 100 * v[n], previous_value |-> 100 * v[n - 1],
              change |-> change, pct_change |-> pct,
              direction |-> PeriodDirection(pct)]

compute_period_comparison(t, time_col, metric_cols) ==
    [c \in {metric_cols[i] : i \in DOMAIN metric_cols} |->
        PeriodOf(Column(t, time_col), Column(t, c))]

---------------------------------------------------------------------------
(* detect_anomalies *)

MinAnomalyPoints == 3
\* abs(z_score) > 2
ZThreshold == 2

\* n * (n - 1) * std^2 of the values
Spread(v) ==
    Len(v) * SumSeq([i \in DOMAIN v |-> v[i] * v[i]]) - SumSeq(v) * SumSeq(v)

\* n * (value - mean)
Deviation(v, i) == Len(v) * v[i] - SumSeq(v)

\* abs(z_score) > ZThreshold, with z_score = (value - mean) / std and std the
\* sample standard deviation: z^2 = Deviation^2 * (n - 1) / (n * Spread)
\* (z_score > 2, without abs)
IsOutlierAbove(v, i) ==
    /\ Deviation(v, i) > 0
    /\ Deviation(v, i) * Deviation(v, i) * (Len(v) - 1)
          > ZThreshold * ZThreshold * Len(v) * Spread(v)

\* (abs(z_score) > 1)
IsOutlierBeyondOne(v, i) ==
    Deviation(v, i) * Deviation(v, i) * (Len(v) - 1) > Len(v) * Spread(v)

IsOutlier(v, i) ==
    Deviation(v, i) * Deviation(v, i) * (Len(v) - 1)
        > ZThreshold * ZThreshold * Len(v) * Spread(v)

RECURSIVE Gcd(_, _)
Gcd(x, y) == IF y = 0 THEN x ELSE Gcd(y, x % y)

\* round(abs(z_score), 2) in hundredths: the k with k - 1/2 <= 100|z| < k + 1/2,
\* z^2 being the fraction num / den in lowest terms
AbsZ100(v, i) ==
    LET p == Deviation(v, i) * Deviation(v, i) * (Len(v) - 1)
        q == Len(v) * Spread(v)
        num == 40000 * (p \div Gcd(p, q))
        den == q \div Gcd(p, q)
    IN  CHOOSE k \in 0..(100 * Len(v)) :
            /\ (k = 0 \/ (2 * k - 1) * (2 * k - 1) * den <= num)
            /\ num < (2 * k + 1) * (2 * k + 1) * den

\* str(timestamp.date()): the calendar date as text, "NaT" for no timestamp
DateStr(x) == IF IsNa(x) THEN Cell("NaT", 0, 0, 0) ELSE Cell("n-n-n", x.a, x.b, x.c)

\* for i, value in enumerate(series): the record of the i-th value of the
\* series without missing values; its date is read at position i of the table
AnomalyRecord(name, times, v, i) ==
    [metric  |-> name,
     date    |-> DateStr(times[i]),
     value   |-> 100 * v[i],
     flag    |-> IF Deviation(v, i) > 0 THEN "spike" ELSE "drop",
     z_score |-> IF Deviation(v, i) > 0 THEN AbsZ100(v, i) ELSE -AbsZ100(v, i)]

AnomaliesOf(name, times, cells) ==
    LET v == Values(dropna(cells))
        hit == SeqOfSet({i \in DOMAIN v : IsOutlier(v, i)})
    IN  IF Len(v) < MinAnomalyPoints THEN << >>
        ELSE IF Spread(v) = 0 THEN << >>
        ELSE [j \in DOMAIN hit |-> AnomalyRecord(name, times, v, hit[j])]

RECURSIVE AnomaliesFrom(_, _, _, _)
AnomaliesFrom(t, time_col, metric_cols, i) ==
    IF i > Len(metric_cols) THEN << >>
    ELSE AnomaliesOf(metric_cols[i], Column(t, time_col), Column(t, metric_cols[i]))
            \o AnomaliesFrom(t, time_col, metric_cols, i + 1)

detect_anomalies(t, time_col, metric_cols) == AnomaliesFrom(t, time_col, metric_cols, 1)

---------------------------------------------------------------------------
(* Plain texts.  Str(id) is the text CategoryText[id]; texts compare as     *)
(* Python strings do, character by character.                              *)

CategoryText ==
    << <<"w","e","s","t">>, <<"e","a","s","t">>, <<"e","a","s","t","e","r","n">> >>

Alphabet ==
    <<"a","b","c","d","e","f","g","h","i","j","k","l","m","n","o","p","q","r",
      "s","t","u","v","w","x","y","z">>

Ord(ch) == CHOOSE i \in DOMAIN Alphabet : Alphabet[i] = ch

\* str(category)
StrOf(x) == IF IsNa(x) THEN <<"n","a","n">> ELSE CategoryText[x.a]

RECURSIVE StrLess(_, _)
\* s < t for two strings
StrLess(s, t) ==
    IF t = << >> THEN FALSE
    ELSE IF s = << >> THEN TRUE
    ELSE IF Head(s) # Head(t) THEN Ord(Head(s)) < Ord(Head(t))
    ELSE StrLess(Tail(s), Tail(t))

---------------------------------------------------------------------------
(* compute_category_analytics and run_analytics *)

\* One evaluation of the three per-metric views on a set of rows
Frame(t, time_col, metric_cols) ==
    [rows              |-> t,
     summary           |-> compute_summary(t, metric_cols),
     trends            |-> compute_trends(t, time_col, metric_cols),
     period_comparison |-> compute_period_comparison(t, time_col, metric_cols)]

\* The frames t.sort_values(time_col).reset_index(drop=True) may lead to
SortedFrames(t, time_col, metric_cols) ==
    {Frame(TakeRows(t, p), time_col, metric_cols) :
        p \in sort_values(Column(t, time_col))}

\* df[category_col].unique(): the distinct values, missing included
unique(cells) == {cells[i] : i \in DOMAIN cells}

\* sorted(...) compares a missing value (a float) with a text, or a text with
\* it, as soon as there are two values to compare: TypeError
SortedRaises(S) == Cardinality(S) >= 2 /\ \E x \in S : IsNa(x)

RECURSIVE SortedTextsDescending(_)
\* (sorted(S, reverse=True))
SortedTextsDescending(S) ==
    IF S = {} THEN << >>
    ELSE LET m == CHOOSE x \in S : \A y \in S \ {x} : StrLess(StrOf(y), StrOf(x))
         IN  <<m>> \o SortedTextsDescending(S \ {m})

RECURSIVE SortedTexts(_)
\* sorted(S) for a set of texts (or the one missing value alone)
SortedTexts(S) ==
    IF S = {} THEN << >>
    ELSE LET m == CHOOSE x \in S : \A y \in S \ {x} : StrLess(StrOf(x), StrOf(y))
         IN  <<m>> \o SortedTexts(S \ {m})

\* df[df[category_col] == category]: a missing value equals nothing
RowsOfCategory(cells, category) ==
    SeqOfSet({i \in DOMAIN cells : ~IsNa(category) /\ cells[i] = category})

CategoryEntry(key, f) ==
    [key               |-> key,
     summary           |-> f.summary,
     trends            |-> f.trends,
     period_comparison |-> f.period_comparison]

RECURSIVE FramesOfCategories(_, _, _, _, _)
\* for category in cats: the sequences of frames, one frame per category in
\* the order of cats, that the per-category sorts may lead to
FramesOfCategories(t, time_col, metric_cols, cells, cats) ==
    IF cats = << >> THEN {<< >>}
    ELSE LET subset == TakeRows(t, RowsOfCategory(cells, Head(cats)))
         IN  {<<f>> \o rest :
                 f \in SortedFrames(subset, time_col, metric_cols),
                 rest \in FramesOfCategories(t, time_col, metric_cols, cells, Tail(cats))}

\* compute_category_analytics on the sorted table t, when sorted() does not
\* raise
CategoryFrames(t, time_col, metric_cols, category_col) ==
    FramesOfCategories(t, time_col, metric_cols, Column(t, category_col),
                       SortedTexts(unique(Column(t, category_col))))

CategoryKeys(t, category_col) ==
    LET cats == SortedTexts(unique(Column(t, category_col)))
    IN  [i \in DOMAIN cats |-> StrOf(cats[i])]

\* df[time_col] = pd.to_datetime(df[time_col], errors="coerce")
ParseTimeColumn(t, time_col) ==
    [t EXCEPT ![ColIndex(t, time_col)] =
        [@ EXCEPT !.dtype = "datetime64", !.cells = to_datetime(@, FALSE)]]

OverallResult(f, time_col, metric_cols) ==
    [summary           |-> f.summary,
     trends            |-> f.trends,
     period_comparison |-> f.period_comparison,
     anomalies         |-> detect_anomalies(f.rows, time_col, metric_cols)]

WithCategories(r, keys, fs) ==
    [summary           |-> r.summary,
     trends            |-> r.trends,
     period_comparison |-> r.period_comparison,
     anomalies         |-> r.anomalies,
     category_analysis |-> [i \in DOMAIN keys |-> CategoryEntry(keys[i], fs[i])]]

Returned(arg, result, fs) ==
    [raised |-> "", arg |-> arg, result |-> <<result>>, frames |-> fs]
Raised(error, arg, fs) ==
    [raised |-> error, arg |-> arg, result |-> << >>, frames |-> fs]

\* run_analytics(t, s): every outcome it may have.  An outcome is the result
\* returned or the exception raised, with the table object handed in as the
\* call leaves it (arg) and the frames evaluated on the way: the whole table
\* first, then one per category.
run_analytics(t, s) ==
    IF s.time_columns = << >>
    THEN {Raised("IndexError", t, << >>)}
    ELSE
    LET time_col == s.time_columns[1]
        metric_cols == s.metric_columns
        category_cols == s.category_columns
        parsed == ParseTimeColumn(t, time_col)
    IN  UNION {
          LET overall == OverallResult(f, time_col, metric_cols)
          IN  IF category_cols = << >>
              THEN {Returned(parsed, overall, <<f>>)}
              ELSE IF SortedRaises(unique(Column(f.rows, category_cols[1])))
              THEN {Raised("TypeError", parsed, <<f>>)}
              ELSE {Returned(parsed,
                             WithCategories(overall,
                                            CategoryKeys(f.rows, category_cols[1]),
                                            fs),
                             <<f>> \o fs) :
                      fs \in CategoryFrames(f.rows, time_col, metric_cols,
                                            category_cols[1])}
          : f \in SortedFrames(parsed, time_col, metric_cols)}

---------------------------------------------------------------------------
(* load_file *)

\* df.empty
IsEmpty(t) == Len(t) = 0 \/ NRows(t) = 0

\* df.dropna(how="all"): the rows with some value
dropna_rows(t) ==
    TakeRows(t, SeqOfSet({i \in 1..NRows(t) : \E j \in DOMAIN t : ~IsNa(t[j].cells[i])}))

\* df.dropna(axis=1, how="all"): the columns with some value
dropna_columns(t) ==
    LET keep == SeqOfSet({j \in DOMAIN t : \E i \in DOMAIN t[j].cells : ~IsNa(t[j].cells[i])})
    IN  [k \in DOMAIN keep |-> t[keep[k]]]

\* df.drop_duplicates(): each row that equals no earlier row
drop_duplicates(t) ==
    TakeRows(t, SeqOfSet({i \in 1..NRows(t) :
                            \A h \in 1..(i - 1) :
                                \E j \in DOMAIN t : t[j].cells[h] # t[j].cells[i]}))

Clean(t) == drop_duplicates(dropna_columns(dropna_rows(t)))

Loaded(t) == [error |-> "", table |-> t]
LoadError(msg) == [error |-> msg, table |-> << >>]

\* load_file(file): the table, or the ValueError raised.  The upload's column
\* names are drawn already stripped and lower-cased.
load_file(f) ==
    IF f.ext \notin {".csv", ".xls", ".xlsx"}
    THEN LoadError("Unsupported file type. Please upload CSV or Excel.")
    ELSE IF IsEmpty(f.table)
    THEN LoadError("Uploaded file is empty.")
    ELSE IF IsEmpty(Clean(f.table))
    THEN LoadError("File has no usable data after cleaning.")
    ELSE Loaded(Clean(f.table))

---------------------------------------------------------------------------
(* generate_charts: the charts it returns, by name *)

generate_charts(t, s) ==
    IF s.category_columns = << >>
    THEN {"trend_charts", "kpi_cards"}
    ELSE {"trend_charts", "category_charts", "kpi_cards"}

---------------------------------------------------------------------------
(* The request handlers upload_file and download_report *)

NoValidation == [valid |-> FALSE, errors |-> << >>]
NoResponse == [status |-> 0, detail |-> << >>]
NoColumn == [name |-> << >>, dtype |-> "", cells |-> << >>]
NoClass == Classified("", "", 0)

HTTPException(status, detail) == [status |-> status, detail |-> detail]

\* if not validation["valid"]: raise HTTPException(422, ...)
RejectsNothing(v) ==
    FALSE

Rejects(v) ==
    ~v.valid

\* df = load_file(file), a ValueError answered with status 400
LoadFile ==
    /\ pc = "start"
    /\ LET r == load_file(file)
       IN  IF r.error # ""
           THEN /\ response' = HTTPException(400, <<r.error>>)
                /\ pc' = "done"
                /\ df' = df
           ELSE /\ df' = r.table
                /\ pc' = "loaded"
                /\ response' = response
    /\ UNCHANGED <<handler, file, schema, validation, dfArg, analytics, frames,
                   charts, col, colClass, seen>>

\* schema = detect_schema(df)
DetectSchema ==
    /\ pc = "loaded"
    /\ schema' = detect_schema(df)
    /\ pc' = "detected"
    /\ UNCHANGED <<handler, file, df, validation, dfArg, analytics, frames,
                   charts, response, col, colClass, seen>>

\* validation = validate_schema(schema), an invalid schema answered with
\* status 422 and the validator's errors
ValidateSchema ==
    /\ pc = "detected"
    /\ validation' = validate_schema(schema)
    /\ IF Rejects(validation')
       THEN /\ response' = HTTPException(422, validation'.errors)
            /\ pc' = "done"
       ELSE /\ pc' = "validated"
            /\ response' = response
    /\ UNCHANGED <<handler, file, df, schema, dfArg, analytics, frames, charts,
                   col, colClass, seen>>

\* analytics = run_analytics(df.copy(), schema); an exception it raises is
\* answered with status 500
RunAnalytics ==
    /\ pc = "validated"
    /\ \E o \in run_analytics(df, schema) :
          /\ dfArg' = o.arg
          /\ frames' = o.frames
          /\ analytics' = o.result
          /\ IF o.raised # ""
             THEN /\ response' = HTTPException(500, <<o.raised>>)
                  /\ pc' = "done"
             ELSE /\ pc' = "analysed"
                  /\ response' = response
    /\ UNCHANGED <<handler, file, df, schema, validation, charts, col, colClass,
                   seen>>

\* charts = generate_charts(df.copy(), schema)
GenerateCharts ==
    /\ pc = "analysed"
    /\ charts' = generate_charts(df, schema)
    /\ pc' = "charted"
    /\ UNCHANGED <<handler, file, df, schema, validation, dfArg, analytics,
                   frames, response, col, colClass, seen>>

\* upload_file returns the JSON body
UploadReturn ==
    /\ pc = "charted"
    /\ handler = "upload_file"
    /\ response' = [status |-> 200, detail |-> <<"json">>]
    /\ pc' = "done"
    /\ UNCHANGED <<handler, file, df, schema, validation, dfArg, analytics,
                   frames, charts, col, colClass, seen>>

\* download_report returns the PDF
ReportReturn ==
    /\ pc = "charted"
    /\ handler = "download_report"
    /\ response' = [status |-> 200, detail |-> <<"application/pdf">>]
    /\ pc' = "done"
    /\ UNCHANGED <<handler, file, df, schema, validation, dfArg, analytics,
                   frames, charts, col, colClass, seen>>

---------------------------------------------------------------------------
(* Uploads *)

Name_date == <<"d","a","t","e">>
Name_sales == <<"s","a","l","e","s">>
Name_units == <<"u","n","i","t","s">>
Name_region == <<"r","e","g","i","o","n">>

Col(name, dtype, cells) == [name |-> name, dtype |-> dtype, cells |-> cells]

\* The sequences of length n over S
Seqs(S, n) == [1..n -> S]

\* The largest number of rows of an upload
MaxFileRows == 2

FileDates == {Cell("n-n-n", 2024, 1, 1), Cell("n-n-n", 2024, 1, 2), Str(1), NaN}
FileNumbers == {Num(10), NaN}
FileRegions == {Str(1), Str(2), NaN}

\* read_csv gives a column with a missing value the dtype float64
NumDtype(cells) == IF \E i \in DOMAIN cells : IsNa(cells[i]) THEN "float64" ELSE "int64"

DateCols(n) == {Col(Name_date, "object", c) : c \in Seqs(FileDates, n)}
SalesCols(n) == {Col(Name_sales, NumDtype(c), c) : c \in Seqs(FileNumbers, n)}
RegionCols(n) == {Col(Name_region, "object", c) : c \in Seqs(FileRegions, n)}

\* The tables of n rows an upload may hold: a date, a metric and a category
\* column, or some of them
FileLayouts == {<<"d", "m", "r">>, <<"d", "m">>, <<"m", "r">>, <<"d", "r">>, <<"r">>}

FileTable(layout, d, m, r) ==
    [j \in DOMAIN layout |->
        IF layout[j] = "d" THEN d ELSE IF layout[j] = "m" THEN m ELSE r]

Idle ==
    /\ df = << >>
    /\ schema = EmptySchema
    /\ validation = NoValidation
    /\ dfArg = << >>
    /\ analytics = << >>
    /\ frames = << >>
    /\ charts = {}
    /\ response = NoResponse
    /\ col = NoColumn
    /\ colClass = NoClass
    /\ seen = << >>

Init ==
    /\ handler \in {"upload_file", "download_report"}
    /\ pc = "start"
    /\ \/ \E e \in {".csv", ".xlsx"}, n \in 0..MaxFileRows, layout \in FileLayouts :
            \E d \in DateCols(n), m \in SalesCols(n), r \in RegionCols(n) :
                file = [ext |-> e, table |-> FileTable(layout, d, m, r)]
       \/ file = [ext |-> ".txt", table |-> << >>]
    /\ Idle

Next ==
    \/ LoadFile
    \/ DetectSchema
    \/ ValidateSchema
    \/ RunAnalytics
    \/ GenerateCharts
    \/ UploadReturn
    \/ ReportReturn

Spec == Init /\ [][Next]_vars

---------------------------------------------------------------------------
(* detect_schema and validate_schema on their own: the loop of            *)
(* detect_schema takes one column after the other, each of the table's     *)
(* number of rows                                                          *)

\* The largest number of columns and of rows of a table to classify
MaxSchemaCols == 3
MaxSchemaRows == 3

Name_notes == <<"n","o","t","e","s">>
Name_update == <<"u","p","d","a","t","e">>
Name_year == <<"y","e","a","r">>
Name_flag == <<"f","l","a","g">>
Name_when == <<"w","h","e","n">>

Digits == <<"1", "2", "3", "4", "5", "6", "7", "8", "9">>

\* The k-th column's name
Numbered(name, k) == name \o <<"_", Digits[k]>>

\* Texts of a column to classify: 2024-01-05, 05-01-2024, 2024-01,
\* 13/01/2024 (a date only when read day first, and under no explicit
\* format), a plain text, and a missing value
SchemaTexts ==
    {Cell("n-n-n", 2024, 1, 5), Cell("n-n-n", 5, 1, 2024), Cell("n-n", 2024, 1, 0),
     Cell("n/n/n", 13, 1, 2024), Str(1), NaN}

TypedColumns(n, k) ==
    {Col(Numbered(Name_year, k), "int64", [i \in 1..n |-> Num(2024)]),
     Col(Numbered(Name_flag, k), "bool", [i \in 1..n |-> Num(1)]),
     Col(Numbered(Name_when, k), "datetime64", [i \in 1..n |-> Ts(2024, 1, i)]),
     Col(Numbered(Name_date, k), "str", [i \in 1..n |-> Cell("Mon n", i, 2024, 0)])}

\* The columns of n rows the table may have as its k-th: the first column
\* holds any texts, a later one the same text in every row
SchemaColumns(n, k) ==
    TypedColumns(n, k)
    \cup {Col(Numbered(nm, k), "object", c) :
            nm \in {Name_update, Name_notes},
            c \in IF k = 1 THEN Seqs(SchemaTexts, n)
                  ELSE {[i \in 1..n |-> x] : x \in SchemaTexts}}

\* for col in df.columns: one iteration
DetectColumn ==
    /\ pc = "classifying"
    /\ Len(seen) < MaxSchemaCols
    /\ \E n \in 1..MaxSchemaRows :
          /\ seen # << >> => n = Len(col.cells)
          /\ \E c \in SchemaColumns(n, Len(seen) + 1) :
                /\ col' = c
                /\ colClass' = ClassifyColumn(c)
                /\ schema' = AppendColumn(schema, c.name, colClass'.cls)
                /\ seen' = Append(seen, c.name)
    /\ UNCHANGED <<handler, pc, file, df, validation, dfArg, analytics, frames,
                   charts, response>>

\* return {"time_columns": ..., "metric_columns": ..., "category_columns": ...}
DetectReturn ==
    /\ pc = "classifying"
    /\ seen # << >>
    /\ pc' = "detected"
    /\ UNCHANGED <<handler, file, df, schema, validation, dfArg, analytics,
                   frames, charts, response, col, colClass, seen>>

InitSchema ==
    /\ handler \in {"upload_file", "download_report"}
    /\ pc = "classifying"
    /\ file = [ext |-> ".csv", table |-> << >>]
    /\ Idle

NextSchema ==
    \/ DetectColumn
    \/ DetectReturn
    \/ ValidateSchema

SpecSchema == InitSchema /\ [][NextSchema]_vars

---------------------------------------------------------------------------
(* run_analytics on its own: the request of a table that load_file         *)
(* returned, at the call of run_analytics                                  *)

\* The table is one load_file returns: nothing left to drop
IsLoaded(t) == ~IsEmpty(t) /\ Clean(t) = t

AtRunAnalytics(t) ==
    /\ handler = "upload_file"
    /\ pc = "validated"
    /\ file = [ext |-> ".xlsx", table |-> t]
    /\ df = t
    /\ schema = detect_schema(t)
    /\ validation = validate_schema(detect_schema(t))
    /\ dfArg = << >>
    /\ analytics = << >>
    /\ frames = << >>
    /\ charts = {}
    /\ response = NoResponse
    /\ col = NoColumn
    /\ colClass = NoClass
    /\ seen = << >>

\* The largest number of rows of a table of the three per-metric views
MaxEngineRows == 3

EngineDates == {Ts(2024, 1, 1), Ts(2024, 1, 2), NaT}
EngineNumbers == {Num(-10), Num(0), Num(70), Num(100), NaN}
EngineGroupNumbers == {Num(100), NaN}
EngineRegions == {Str(1), Str(2)}
\* Values a step of 5% apart
EngineStepNumbers == {Num(95), Num(100), Num(105)}

InitEngine ==
    \E n \in 1..MaxEngineRows :
        \E d \in Seqs(EngineDates, n) :
            \/ \E m \in Seqs(EngineNumbers, n) :
                    LET t == <<Col(Name_date, "datetime64", d),
                               Col(Name_sales, "float64", m)>>
                    IN  IsLoaded(t) /\ AtRunAnalytics(t)
            \/ \E m \in Seqs(EngineGroupNumbers, n), r \in Seqs(EngineRegions, n) :
                    LET t == <<Col(Name_date, "datetime64", d),
                               Col(Name_region, "object", r),
                               Col(Name_sales, "float64", m)>>
                    IN  IsLoaded(t) /\ AtRunAnalytics(t)
            \/ \E m \in Seqs(EngineStepNumbers, n) :
                    LET t == <<Col(Name_date, "datetime64", d),
                               Col(Name_sales, "float64", m)>>
                    IN  IsLoaded(t) /\ AtRunAnalytics(t)

NextEngine == RunAnalytics

SpecEngine == InitEngine /\ [][NextEngine]_vars

\* The largest number of rows of a table of the anomaly view
MaxAnomalyRows == 6

AnomalyNumbers == {Num(10), Num(100), NaN}

\* Days 1..n of a month, in ascending or in descending order
Days(n, ascending) ==
    [i \in 1..n |-> IF ascending THEN Ts(2024, 1, i) ELSE Ts(2024, 1, n + 1 - i)]

\* 10 in every row, but 100 in row j
OneHigh(n, j) == [i \in 1..n |-> IF i = j THEN Num(100) ELSE Num(10)]

InitAnomaly ==
    \E n \in 1..MaxAnomalyRows, ascending \in BOOLEAN :
        \E j \in 0..n, m \in Seqs(AnomalyNumbers, n) :
            LET t == <<Col(Name_date, "datetime64", Days(n, ascending)),
                       Col(Name_sales, "float64", m),
                       Col(Name_units, "int64", OneHigh(n, j))>>
            IN  IsLoaded(t) /\ AtRunAnalytics(t)

NextAnomaly == RunAnalytics

SpecAnomaly == InitAnomaly /\ [][NextAnomaly]_vars

\* The largest number of rows of a table with category columns
MaxCategoryRows == 3

Name_segment == <<"s","e","g","m","e","n","t">>

CategoryRegions == {Str(1), Str(2), Str(3)}
\* A second category column: Str(1) in the first k rows, Str(2) in the others
CategorySegments(n) == {[i \in 1..n |-> IF i <= k THEN Str(1) ELSE Str(2)] : k \in 0..n}
CategoryNumbers == {Num(70), Num(100)}

\* Tables of no, one and two category columns, on days 1..n
InitCategory ==
    \E n \in 1..MaxCategoryRows, ascending \in BOOLEAN :
        \E m \in Seqs(CategoryNumbers, n) :
            \/ LET t == <<Col(Name_date, "datetime64", Days(n, ascending)),
                          Col(Name_sales, "float64", m)>>
               IN  IsLoaded(t) /\ AtRunAnalytics(t)
            \/ \E r \in Seqs(CategoryRegions, n) :
                    LET t == <<Col(Name_date, "datetime64", Days(n, ascending)),
                               Col(Name_region, "object", r),
                               Col(Name_sales, "float64", m)>>
                    IN  IsLoaded(t) /\ AtRunAnalytics(t)
            \/ \E r \in Seqs(CategoryRegions, n), g \in CategorySegments(n) :
                    LET t == <<Col(Name_date, "datetime64", Days(n, ascending)),
                               Col(Name_region, "object", r),
                               Col(Name_segment, "object", g),
                               Col(Name_sales, "float64", m)>>
                    IN  IsLoaded(t) /\ AtRunAnalytics(t)

NextCategory == RunAnalytics

SpecCategory == InitCategory /\ [][NextCategory]_vars

\* The largest number of rows of a table with a gap in its metric
MaxGapRows == 7

\* The cells with the one at row g missing (none for g = 0)
WithGap(cells, g) == [i \in DOMAIN cells |-> IF i = g THEN NaN ELSE cells[i]]

\* Tables on days 1..n whose metric is 10 in every row but 100 in row j, with
\* the value of row g missing
InitGap ==
    \E n \in 1..MaxGapRows, ascending \in BOOLEAN :
        \E j \in 0..n, g \in 0..n :
            LET t == <<Col(Name_date, "datetime64", Days(n, ascending)),
                       Col(Name_sales, "float64", WithGap(OneHigh(n, j), g))>>
            IN  IsLoaded(t) /\ AtRunAnalytics(t)

NextGap == RunAnalytics

SpecGap == InitGap /\ [][NextGap]_vars

---------------------------------------------------------------------------
(* Properties *)

Elems(q) == {q[i] : i \in DOMAIN q}

\* run_analytics was called
EngineInvoked == dfArg # << >>

\* C1: in both handlers run_analytics and generate_charts run only after
\* validate_schema returned valid = true for the schema detected from the
\* request's table; a request whose detected schema has no time column or no
\* metric column ends with status 422 carrying the validator's errors, and the
\* engine is never invoked for it.
C1_EngineOnlyAfterValidation ==
    /\ (EngineInvoked \/ analytics # << >> \/ charts # {}
            \/ pc \in {"validated", "analysed", "charted"})
          => /\ validation.valid
             /\ validation.errors = << >>
             /\ schema = detect_schema(df)
             /\ schema.time_columns # << >>
             /\ schema.metric_columns # << >>
    /\ (df # << >> /\ pc # "loaded"
            /\ (schema.time_columns = << >> \/ schema.metric_columns = << >>))
          => /\ ~EngineInvoked
             /\ analytics = << >>
             /\ charts = {}
             /\ pc \in {"detected", "done"}
             /\ pc = "done" => /\ response.status = 422
                               /\ response.detail = validation.errors
                               /\ response.detail # << >>

C1_Witness ==
    /\ handler = "download_report"
    /\ pc = "done"
    /\ response.status = 422
    /\ Len(response.detail) = 2
    /\ ~EngineInvoked

\* C2: validate_schema returns valid = true exactly when time_columns and
\* metric_columns are both non-empty; errors holds one message for each of the
\* two that is empty, the time message first; category_columns does not
\* change the result.
C2_ValidateSchema ==
    pc \in {"validated", "done"} =>
        LET noTime == schema.time_columns = << >>
            noMetric == schema.metric_columns = << >>
            e == validation.errors
        IN  /\ validation.valid <=> (~noTime /\ ~noMetric)
            /\ Len(e) = (IF noTime THEN 1 ELSE 0) + (IF noMetric THEN 1 ELSE 0)
            /\ noTime => e[1] = NoTimeError
            /\ noMetric => e[Len(e)] = NoMetricError
            /\ \A cats \in {<< >>, <<Name_region>>,
                            schema.category_columns \o <<Name_region>>} :
                  validate_schema([schema EXCEPT !.category_columns = cats])
                    = validation

C2_Witness ==
    /\ pc = "done"
    /\ Len(validation.errors) = 2
    /\ schema.category_columns # << >>
    /\ schema.time_columns = << >>
    /\ schema.metric_columns = << >>

\* The number of values of column c that the i-th explicit format parses, and
\* that free-form parsing parses
ParsedBy(c, i) ==
    Cardinality({r \in DOMAIN c.cells : ParseFormat(date_formats[i], c.cells[r]) # NaT})
ParsedFreely(c, dayfirst) ==
    Cardinality({r \in DOMAIN c.cells : ParseGeneric(c.cells[r], dayfirst) # NaT})

Textual(c) == c.dtype \in {"object", "str"}
ByFormat(c) == \E i \in DOMAIN date_formats : 2 * ParsedBy(c, i) > Len(c.cells)
ByGeneric(c) == 10 * ParsedFreely(c, FALSE) > 7 * Len(c.cells)
ByHint(c) == is_name_hint(c.name) /\ 2 * ParsedFreely(c, TRUE) > Len(c.cells)

ExpectedClass(c) ==
    IF c.dtype = "datetime64" \/ (Textual(c) /\ (ByFormat(c) \/ ByGeneric(c) \/ ByHint(c)))
    THEN "time"
    ELSE IF c.dtype \in {"int64", "float64", "bool"} THEN "metric"
    ELSE "category"

ListOf(s, cls) ==
    CASE cls = "time" -> s.time_columns
      [] cls = "metric" -> s.metric_columns
      [] OTHER -> s.category_columns

\* C3: detect_schema places every column in exactly one of time_columns,
\* metric_columns, category_columns: a timestamp column is time; a textual
\* column is time if some explicit format parses more than 50% of its values
\* (the first such format in the listed order wins), else if free-form parsing
\* parses more than 70%, else if its name holds a date hint and day-first
\* parsing parses more than 50%; any other column is metric if numeric and
\* category otherwise.  A textual column at exactly 50% under every format, at
\* most 70% free-form and without a hint is category; the free-form parse
\* decides only when no explicit format succeeded.
C3_DetectSchema ==
    col # NoColumn =>
        /\ colClass.cls = ExpectedClass(col)
        /\ col.name \in Elems(ListOf(schema, colClass.cls))
        /\ \A nm \in Elems(seen) :
              Cardinality({cls \in {"time", "metric", "category"} :
                              nm \in Elems(ListOf(schema, cls))}) = 1
        /\ Len(schema.time_columns) + Len(schema.metric_columns)
              + Len(schema.category_columns) = Len(seen)
        /\ colClass.via = "format" <=> (Textual(col) /\ ByFormat(col))
        /\ colClass.via = "format" =>
              /\ 2 * ParsedBy(col, colClass.fmt) > Len(col.cells)
              /\ \A j \in 1..(colClass.fmt - 1) : 2 * ParsedBy(col, j) <= Len(col.cells)
        /\ colClass.via \in {"generic", "dayfirst"} => ~ByFormat(col)
        /\ (Textual(col) /\ ~is_name_hint(col.name) /\ ~ByGeneric(col)
                /\ \A i \in DOMAIN date_formats : 2 * ParsedBy(col, i) <= Len(col.cells))
              => colClass.cls = "category"

C3_Witness ==
    /\ Textual(col)
    /\ colClass.cls = "category"
    /\ \E i \in DOMAIN date_formats : 2 * ParsedBy(col, i) = Len(col.cells)
    /\ col.name \in Elems(schema.category_columns)

MetricSet == Elems(schema.metric_columns)

\* The metric's values in the rows t and the number of them present
Present(t, m) == {i \in 1..NRows(t) : ~IsNa(Column(t, m)[i])}
PresentWithTime(t, m) ==
    {i \in Present(t, m) : ~IsNa(Column(t, schema.time_columns[1])[i])}

\* C4 as stated: every metric column has an entry in every view of the result,
\* summary, trends, period_comparison and anomalies.
C4_EveryViewHasEveryMetric ==
    analytics # << >> =>
        \A m \in MetricSet :
            /\ m \in DOMAIN analytics[1].summary
            /\ m \in DOMAIN analytics[1].trends
            /\ m \in DOMAIN analytics[1].period_comparison
            /\ \E i \in DOMAIN analytics[1].anomalies : analytics[1].anomalies[i].metric = m

\* C4, amended: every metric column has an entry in summary, trends and
\* period_comparison, a placeholder when it has too little data; anomalies is
\* a list of flagged values only, with no entry for a metric that has fewer
\* than 3 values.
C4_PerMetricViewsHaveEveryMetric ==
    analytics # << >> =>
        LET r == analytics[1]
            t == frames[1].rows
        IN  /\ DOMAIN r.summary = MetricSet
            /\ DOMAIN r.trends = MetricSet
            /\ DOMAIN r.period_comparison = MetricSet
            /\ \A m \in MetricSet :
                  /\ Present(t, m) = {} => r.summary[m].count = 0
                  /\ Cardinality(Present(t, m)) < 2
                        => r.trends[m] = [direction |-> "insufficient data", slope |-> 0]
                  /\ Cardinality(PresentWithTime(t, m)) < 2
                        => r.period_comparison[m].direction = "insufficient data"
                  /\ Cardinality(Present(t, m)) < 3
                        => \A i \in DOMAIN r.anomalies : r.anomalies[i].metric # m
            /\ \A i \in DOMAIN r.anomalies : r.anomalies[i].metric \in MetricSet

C4_Witness ==
    /\ analytics # << >>
    /\ Cardinality(MetricSet) = 2
    /\ analytics[1].anomalies # << >>
    /\ \E m \in MetricSet :
          /\ analytics[1].trends[m].direction = "insufficient data"
          /\ analytics[1].period_comparison[m].direction = "insufficient data"
          /\ \A i \in DOMAIN analytics[1].anomalies : analytics[1].anomalies[i].metric # m

\* C5: for every non-empty table whose detected schema passes validation,
\* run_analytics returns a result and never ends in an error, whatever values
\* are missing.
C5_AnalyticsAlwaysReturns ==
    (EngineInvoked /\ validation.valid) =>
        /\ analytics # << >>
        /\ response.status # 500

TimeColumn == schema.time_columns[1]

\* The rows are in the order of their timestamps, those without one last
InTimeOrder(times) ==
    \A i, j \in DOMAIN times :
        i < j => \/ IsNa(times[j])
                 \/ ~IsNa(times[i]) /\ TsKey(times[i]) <= TsKey(times[j])

\* C6: for every metric column and every row set given to compute_summary,
\* the whole table or one category's rows, in time order, count is the number
\* of non-missing values and at most the number of rows; with count 0 all of
\* total, average, min, max, latest are 0; with count > 0, min <= average <=
\* max and latest is the value at the last row that has one.
C6_Summary ==
    analytics # << >> =>
        /\ analytics[1].summary = frames[1].summary
        /\ \A k \in DOMAIN frames :
              /\ InTimeOrder(Column(frames[k].rows, TimeColumn))
              /\ \A m \in MetricSet :
                    LET rows == frames[k].rows
                        P == Present(rows, m)
                        s == frames[k].summary[m]
                    IN  /\ s.count = Cardinality(P)
                        /\ s.count <= NRows(rows)
                        /\ s.count = 0 =>
                              /\ s.total = 0 /\ s.average = 0 /\ s.min = 0
                              /\ s.max = 0 /\ s.latest = 0
                        /\ s.count > 0 =>
                              /\ s.min <= s.average
                              /\ s.average <= s.max
                              /\ \E i \in P :
                                    /\ \A j \in P : j <= i
                                    /\ s.latest = 100 * Column(rows, m)[i].a

C6_Witness ==
    /\ analytics # << >>
    /\ Len(frames) >= 3
    /\ df # frames[1].rows
    /\ \E k \in DOMAIN frames, m \in MetricSet :
          /\ k > 1
          /\ frames[k].summary[m].count >= 1
          /\ frames[k].summary[m].count < NRows(frames[k].rows)
          /\ IsNa(Column(frames[k].rows, m)[NRows(frames[k].rows)])
    /\ \E k \in DOMAIN frames, m \in MetricSet : frames[k].summary[m].count = 0

\* The values of metric m in the rows of frame f, missing ones left out
SeriesOf(f, m) == Values(dropna(Column(f.rows, m)))

\* slope > 0.02 * avg and slope < -0.02 * avg for the least-squares slope
\* SlopeNum / SlopeDen and avg = sum / n
SlopeOverTwoPct(v) == 50 * Len(v) * SlopeNum(v) > SumSeq(v) * SlopeDen(v)
SlopeUnderMinusTwoPct(v) == 50 * Len(v) * SlopeNum(v) < -(SumSeq(v) * SlopeDen(v))

\* C7 as stated: with at least 2 values, 'stable' iff the slope lies strictly
\* between -0.02*avg and 0.02*avg, 'improving' when slope > 0.02*avg,
\* 'declining' when slope < -0.02*avg; with fewer than 2 values
\* 'insufficient data' with slope 0.
C7_StableIffStrictlyInside ==
    analytics # << >> =>
        \A k \in DOMAIN frames : \A m \in MetricSet :
            LET v == SeriesOf(frames[k], m)
                r == frames[k].trends[m]
            IN  /\ Len(v) < 2 => r = [direction |-> "insufficient data", slope |-> 0]
                /\ Len(v) >= 2 =>
                      /\ r.direction = "stable" <=>
                            /\ 50 * Len(v) * SlopeNum(v) > -(SumSeq(v) * SlopeDen(v))
                            /\ 50 * Len(v) * SlopeNum(v) < SumSeq(v) * SlopeDen(v)
                      /\ SlopeOverTwoPct(v) => r.direction = "improving"
                      /\ SlopeUnderMinusTwoPct(v) => r.direction = "declining"

\* C7, amended: with at least 2 values, 'improving' iff slope > 0.02*avg,
\* 'declining' iff not that and slope < -0.02*avg, 'stable' otherwise; for
\* avg >= 0, 'stable' iff -0.02*avg <= slope <= 0.02*avg, the boundaries
\* included; the reported slope is the slope rounded to 4 decimals; with fewer
\* than 2 values 'insufficient data' with slope 0.
C7_TrendDirection ==
    analytics # << >> =>
        /\ analytics[1].trends = frames[1].trends
        /\ \A k \in DOMAIN frames : \A m \in MetricSet :
            LET v == SeriesOf(frames[k], m)
                r == frames[k].trends[m]
            IN  /\ Len(v) < 2 => r = [direction |-> "insufficient data", slope |-> 0]
                /\ Len(v) >= 2 =>
                      /\ r.direction = "improving" <=> SlopeOverTwoPct(v)
                      /\ r.direction = "declining" <=>
                            (~SlopeOverTwoPct(v) /\ SlopeUnderMinusTwoPct(v))
                      /\ r.direction = "stable" <=>
                            (~SlopeOverTwoPct(v) /\ ~SlopeUnderMinusTwoPct(v))
                      /\ SumSeq(v) >= 0 =>
                            (r.direction = "stable" <=>
                                /\ 50 * Len(v) * SlopeNum(v) >= -(SumSeq(v) * SlopeDen(v))
                                /\ 50 * Len(v) * SlopeNum(v) <= SumSeq(v) * SlopeDen(v))
                      /\ 2 * Abs(r.slope * SlopeDen(v) - 10000 * SlopeNum(v)) <= SlopeDen(v)

C7_Witness ==
    /\ analytics # << >>
    /\ \E m \in MetricSet :
          /\ Len(SeriesOf(frames[1], m)) >= 2
          /\ 50 * Len(SeriesOf(frames[1], m)) * SlopeNum(SeriesOf(frames[1], m))
                = SumSeq(SeriesOf(frames[1], m)) * SlopeDen(SeriesOf(frames[1], m))
          /\ frames[1].trends[m].direction = "stable"

\* The values of metric m in the rows of frame f that have both a timestamp
\* and a value
PairsOf(f, m) == Values(BothPresent(Column(f.rows, TimeColumn), Column(f.rows, m)))

\* The period comparison r of the values v: latest and previous are the last
\* and the second-to-last of v, change their difference, pct_change is
\* change / previous * 100 (exactly, or to 2 decimals) or 0 when previous is
\* 0, and the direction follows pct_change
PeriodAgrees(r, v, exact) ==
    LET n == Len(v)
        latest == v[n]
        previous == v[n - 1]
    IN  /\ n < 2 => r = [latest_value |-> 0, previous_value |-> 0, change |-> 0,
                         pct_change |-> 0, direction |-> "insufficient data"]
        /\ n >= 2 =>
              /\ r.latest_value = 100 * latest
              /\ r.previous_value = 100 * previous
              /\ r.change = 100 * (latest - previous)
              /\ previous = 0 => r.pct_change = 0
              /\ (previous # 0 /\ exact) =>
                    r.pct_change * previous = 10000 * (latest - previous)
              /\ (previous # 0 /\ ~exact) =>
                    2 * Abs(r.pct_change * previous - 10000 * (latest - previous))
                        <= Abs(previous)
              /\ r.direction = "up" <=> r.pct_change > 500
              /\ r.direction = "down" <=> r.pct_change < -500
              /\ r.direction = "no significant change" <=>
                    (r.pct_change <= 500 /\ r.pct_change >= -500)
              /\ (previous = 100 /\ latest = 70) =>
                    (r.change = -3000 /\ r.pct_change = -3000 /\ r.direction = "down")

\* C8 as stated: with at least 2 rows having both time and value, latest and
\* previous are the values of the last and second-to-last such rows, change =
\* latest - previous, pct_change = change / previous * 100 when previous # 0
\* and 0 when previous = 0, direction 'up' iff pct_change > 5, 'down' iff
\* pct_change < -5, else 'no significant change'; with fewer such rows every
\* number is 0 and the direction 'insufficient data'.
C8_ExactPctChange ==
    analytics # << >> =>
        \A k \in DOMAIN frames : \A m \in MetricSet :
            PeriodAgrees(frames[k].period_comparison[m], PairsOf(frames[k], m), TRUE)

\* C8, amended: as stated, but pct_change is change / previous * 100 rounded
\* to 2 decimals, and the direction is decided on that rounded number.
C8_PeriodComparison ==
    analytics # << >> =>
        /\ analytics[1].period_comparison = frames[1].period_comparison
        /\ \A k \in DOMAIN frames : \A m \in MetricSet :
              PeriodAgrees(frames[k].period_comparison[m], PairsOf(frames[k], m), FALSE)

C8_Witness ==
    /\ analytics # << >>
    /\ \E m \in MetricSet :
          /\ Len(PairsOf(frames[1], m)) >= 2
          /\ frames[1].period_comparison[m].previous_value = 7000
          /\ frames[1].period_comparison[m].latest_value = 10000
          /\ frames[1].period_comparison[m].pct_change = 4286
          /\ frames[1].period_comparison[m].direction = "up"

\* The i-th of the values v lies more than 2 sample standard deviations from
\* their mean, and there are at least 3 values of non-zero deviation:
\* (v[i] - mean)^2 > 4 * std^2, with n * (n - 1) * std^2 = n * sum(v^2) - sum(v)^2
Flagged(v, i) ==
    LET n == Len(v)
        sum == SumSeq(v)
        squares == SumSeq([j \in DOMAIN v |-> v[j] * v[j]])
    IN  /\ n >= 3
        /\ n * squares - sum * sum # 0
        /\ (n * v[i] - sum) * (n * v[i] - sum) * (n - 1)
              > 4 * n * (n * squares - sum * sum)

MetricIndex(m) == CHOOSE j \in DOMAIN schema.metric_columns : schema.metric_columns[j] = m

EndsHigh(m, n) ==
    /\ m \in MetricSet
    /\ Column(frames[1].rows, m) = [i \in 1..n |-> IF i = n THEN Num(100) ELSE Num(10)]

RecordsOf(m) ==
    LET OfMetric(r) == r.metric = m
    IN  SelectSeq(analytics[1].anomalies, OfMetric)

\* C10 as stated: for a metric column that is [10, 10, 10, 10, 100] in time
\* order, detect_anomalies returns exactly one record, a 'spike' at the last
\* row with a z-score over 2.
C10_SpikeInFiveValues ==
    (analytics # << >> /\ EndsHigh(Name_units, 5)) =>
        /\ Len(RecordsOf(Name_units)) = 1
        /\ RecordsOf(Name_units)[1].flag = "spike"
        /\ RecordsOf(Name_units)[1].value = 10000
        /\ RecordsOf(Name_units)[1].z_score > 200

\* C10, amended: for a metric column that is [10, 10, 10, 10, 100] in time
\* order, detect_anomalies returns no record: the last value's z-score under
\* the sample standard deviation is 1.79, not over 2.  With one more 10 in
\* front, [10, 10, 10, 10, 10, 100], it returns exactly one record, a 'spike'
\* of the last value with z-score 2.04.
C10_NoSpikeInFiveValues ==
    analytics # << >> =>
        /\ EndsHigh(Name_units, 5) => RecordsOf(Name_units) = << >>
        /\ EndsHigh(Name_units, 6) =>
              /\ Len(RecordsOf(Name_units)) = 1
              /\ RecordsOf(Name_units)[1].flag = "spike"
              /\ RecordsOf(Name_units)[1].value = 10000
              /\ RecordsOf(Name_units)[1].z_score = 204

C10_Witness ==
    /\ analytics # << >>
    /\ EndsHigh(Name_units, 5)
    /\ df # frames[1].rows
    /\ RecordsOf(Name_units) = << >>

\* C11: the table handed to run_analytics is not modified by the call: after
\* it every column of that table object, the time column included, holds the
\* values and the type it had before.
C11_ArgumentUnchanged ==
    EngineInvoked => dfArg = df

CategoryColumn == schema.category_columns[1]

\* The rows of t whose value in the first category column has the string
\* form key, in the order of t
RowsKeyed(t, key) ==
    TakeRows(t, SeqOfSet({i \in 1..NRows(t) : StrOf(Column(t, CategoryColumn)[i]) = key}))

\* C12: the result has category_analysis iff category_columns is non-empty;
\* it then has exactly one entry for each distinct value of the first
\* category column, keyed by the value's string form, in lexicographic order
\* of the keys; each entry holds exactly summary, trends and
\* period_comparison, computed from the rows carrying that value only; later
\* category columns do not change the result.
C12_CategoryAnalysis ==
    analytics # << >> =>
        /\ ("category_analysis" \in DOMAIN analytics[1]) <=> (schema.category_columns # << >>)
        /\ schema.category_columns # << >> =>
              LET rows == frames[1].rows
                  cells == Column(rows, CategoryColumn)
                  ca == analytics[1].category_analysis
              IN  /\ Len(ca) = Cardinality({cells[i] : i \in DOMAIN cells})
                  /\ {ca[i].key : i \in DOMAIN ca} = {StrOf(cells[i]) : i \in DOMAIN cells}
                  /\ \A i, j \in DOMAIN ca : i < j => StrLess(ca[i].key, ca[j].key)
                  /\ \A i \in DOMAIN ca :
                        /\ DOMAIN ca[i] = {"key", "summary", "trends", "period_comparison"}
                        /\ ca[i].summary
                              = compute_summary(RowsKeyed(rows, ca[i].key), schema.metric_columns)
                        /\ ca[i].trends
                              = compute_trends(RowsKeyed(rows, ca[i].key), TimeColumn,
                                               schema.metric_columns)
                        /\ ca[i].period_comparison
                              = compute_period_comparison(RowsKeyed(rows, ca[i].key), TimeColumn,
                                                          schema.metric_columns)
                  /\ \E o \in run_analytics(df, [schema EXCEPT
                                    !.category_columns = <<CategoryColumn>>]) :
                        o.result = analytics

C12_Witness ==
    /\ analytics # << >>
    /\ Len(schema.category_columns) = 2
    /\ Len(analytics[1].category_analysis) = 3
    /\ analytics[1].category_analysis[1].key = CategoryText[2]
    /\ analytics[1].category_analysis[2].key = CategoryText[3]
    /\ analytics[1].category_analysis[3].key = CategoryText[1]
    /\ Column(df, CategoryColumn)[1] = Str(1)
    /\ df # frames[1].rows

\* C13: every anomaly record carries the date of the row in which the flagged
\* value occurs: for a flagged value at row r of the time-sorted table the
\* record's date is the time value of row r, also when the metric has missing
\* values in rows before r.
C13_DateOfFlaggedRow ==
    analytics # << >> =>
        \A m \in MetricSet :
            LET rows == frames[1].rows
                v == SeriesOf(frames[1], m)
                at == SeqOfSet(Present(rows, m))
                hit == SeqOfSet({i \in DOMAIN v : Flagged(v, i)})
                recs == RecordsOf(m)
            IN  \A j \in DOMAIN recs :
                    j <= Len(hit) =>
                        recs[j].date = DateStr(Column(rows, TimeColumn)[at[hit[j]]])

\* C14: the direction reported by compute_period_comparison agrees with the
\* sign of the change: 'up' only when latest > previous and 'down' only when
\* latest < previous, for every previous, negative ones included.
C14_DirectionAgreesWithChange ==
    analytics # << >> =>
        \A k \in DOMAIN frames : \A m \in MetricSet :
            LET r == frames[k].period_comparison[m]
            IN  /\ r.direction = "up" => r.latest_value > r.previous_value
                /\ r.direction = "down" => r.latest_value < r.previous_value

\* C15: summary and period_comparison agree on the latest observation: for
\* every metric with at least 2 rows in which both time and value are
\* present, summary.latest equals period_comparison.latest_value rounded to 2
\* decimals, for the whole table and every category subset, also when some
\* rows have no time value.
C15_LatestAgrees ==
    analytics # << >> =>
        \A k \in DOMAIN frames : \A m \in MetricSet :
            Len(PairsOf(frames[k], m)) >= 2 =>
                frames[k].summary[m].latest = frames[k].period_comparison[m].latest_value

===========================================================================
